---- MODULE Spec2Model ----
(***************************************************************************)
(* Model of the Planck noise-model builder:                                *)
(*   cmbml/utils/get_maps.py            the Asset Fetcher                  *)
(*   archive/make_planck_sims_cov_model.py   the Spectral Model Builder    *)
(*                                                                         *)
(* Text is a sequence of one-character strings, so that formatting,        *)
(* padding and template substitution are computed character by character.  *)
(* A file's content is a record [size, fits, unit]: its length in bytes,   *)
(* whether it parses as a FITS file, and the TUNIT1 entry of HDU 1         *)
(* ("none" when the header has no such key).                               *)
(***************************************************************************)
EXTENDS Integers, Sequences, FiniteSets, TLC

VARIABLES
    fs,         \* the assets directory: file name -> content, for the files that exist
    net,        \* requests sent to the remote service during the current operation
    call,       \* the last resolver call and its outcome
    nCalls,     \* number of resolver calls made so far
    fmt,        \* the last pair of file names formatted
    DETECTORS,  \* the configured detector list
    avgFiles,   \* detectors whose baseline average file exists
    archive,    \* the written noise-model archives: detector -> content
    pc,         \* position of the batch / of get_ps_data
    run,        \* number of the current execution of the script
    frame,      \* the locals of the running get_ps_data
    hist        \* what the current execution did so far

vars == <<fs, net, call, nCalls, fmt, DETECTORS, avgFiles, archive, pc, run, frame, hist>>

fetchVars == <<call, nCalls>>
builderVars == <<DETECTORS, avgFiles, archive, pc, run, frame, hist>>

-----------------------------------------------------------------------------
(* Bounds of the model *)

\* realizations per detector (N_PLANCK_SIMS is 100 in the source)
N_PLANCK_SIMS == 3

\* executions of the script over the same directories
MaxRuns == 2

\* resolver calls in a row over the same assets directory
MaxCalls == 2

-----------------------------------------------------------------------------
(* Text *)

Digit(k) ==
    CASE k = 0 -> "0" [] k = 1 -> "1" [] k = 2 -> "2" [] k = 3 -> "3" [] k = 4 -> "4"
      [] k = 5 -> "5" [] k = 6 -> "6" [] k = 7 -> "7" [] k = 8 -> "8" [] k = 9 -> "9"

\* "{:.0f}".format(n), and "{}".format(n), of a non-negative integer
RECURSIVE FormatInt(_)
FormatInt(n) ==
    IF n < 10 THEN <<Digit(n)>> ELSE FormatInt(n \div 10) \o <<Digit(n % 10)>>

\* str.zfill(width) of a text without sign
RECURSIVE zfill(_, _)
zfill(s, width) ==
    IF Len(s) >= width THEN s ELSE zfill(<<"0">> \o s, width)

format_freq(freq) == zfill(FormatInt(freq), 3)

format_real_short(real) == zfill(FormatInt(real), 4)

format_real(real) == zfill(FormatInt(real), 5)

LFI == <<"L", "F", "I">>
HFI == <<"H", "F", "I">>
T_SkyMap == <<"_", "S", "k", "y", "M", "a", "p", "_">>
T_us == <<"_">>
T_full_fits == <<"_", "f", "u", "l", "l", ".", "f", "i", "t", "s">>
T_BPassCorrected == <<"-", "B", "P", "a", "s", "s", "C", "o", "r", "r", "e", "c", "t", "e", "d">>
T_psb == <<"-", "p", "s", "b">>
T_R300 == <<"R", "3", ".", "0", "0">>
T_R301 == <<"R", "3", ".", "0", "1">>
T_ffp10_noise == <<"f", "f", "p", "1", "0", "_", "n", "o", "i", "s", "e", "_">>
T_ring_cut == <<"f", "u", "l", "l">>
T_map_mc == <<"_", "m", "a", "p", "_", "m", "c", "_">>
T_fits == <<".", "f", "i", "t", "s">>
T_hm_mid == <<"_", "2", "0", "4", "8", "_", "R", "3", ".", "0", "1", "_",
              "h", "a", "l", "f", "m", "i", "s", "s", "i", "o", "n", "-">>

\* the file name get_planck_obs_data builds
obs_map_fn(detector) ==
    LET lfi == detector \in {30, 44, 70}
        instrument == IF lfi THEN LFI ELSE HFI
        freq0 == IF lfi THEN format_freq(detector) \o T_BPassCorrected
                        ELSE format_freq(detector)
        rev == IF lfi THEN T_R300 ELSE T_R301
        obs_nside == IF lfi THEN 1024 ELSE 2048
        use_freq_str == IF detector = 353 THEN format_freq(detector) \o T_psb ELSE freq0
    IN  instrument \o T_SkyMap \o use_freq_str \o T_us \o FormatInt(obs_nside)
            \o T_us \o rev \o T_full_fits

\* the file name get_planck_noise_data builds
noise_fn(detector, realization) ==
    T_ffp10_noise \o format_freq(detector) \o T_us \o T_ring_cut \o T_map_mc
        \o format_real(realization) \o T_fits

\* the file names get_planck_hm_data builds, hm = 1, 2
hm_fn(detector, hm) ==
    LET instrument == IF detector \in {30, 44, 70} THEN LFI ELSE HFI
    IN  instrument \o T_SkyMap \o format_freq(detector) \o T_hm_mid
            \o FormatInt(hm) \o T_fits

-----------------------------------------------------------------------------
(* The assets directory and the remote service *)

FitsUnits == {"K_CMB", "MJy/sr", "none", "uK_CMB"}

\* what is not a FITS file: an empty body, an error page of 1023 or of 1024 bytes
NotFits(n) == [size |-> n, fits |-> FALSE, unit |-> "none"]

Garbage == {NotFits(0), NotFits(1023), NotFits(1024)}

\* a map file, whose HDU 1 header carries TUNIT1 = unit, or no TUNIT1
FitsFile(u) == [size |-> 5760, fits |-> TRUE, unit |-> u]

Bodies == {NotFits(0), NotFits(1024)} \cup {FitsFile(u) : u \in FitsUnits}

\* what requests.get does: it raises, or it returns a response with a body
\* (whatever the HTTP status: the status is never looked at)
Response(raised, body) == [raised |-> raised, content |-> body]

NoBody == NotFits(0)

Responses == {Response(TRUE, NoBody)} \cup {Response(FALSE, b) : b \in Bodies}

\* the responses the resolver calls are tried with
FetchResponses ==
    {Response(TRUE, NoBody)} \cup {Response(FALSE, b) : b \in Garbage \cup {FitsFile("K_CMB")}}

\* open(dest_path, "wb"); file.write(content)
WriteFile(f, dest_path, content) ==
    [q \in DOMAIN f \cup {dest_path} |-> IF q = dest_path THEN content ELSE f[q]]

need_to_dl_le(f, dest_path) ==
    IF dest_path \notin DOMAIN f THEN TRUE
    ELSE IF f[dest_path].size <= 1024 THEN TRUE
    ELSE FALSE

need_to_dl(f, dest_path) ==
    IF dest_path \notin DOMAIN f THEN TRUE
    ELSE IF f[dest_path].size < 1024 THEN TRUE
    ELSE FALSE

\* acquire_map_data on the directory f: the directory afterwards, the exchanges
\* with the remote service, and whether the call raised
acquire_map_data(f, dest_path, source_url_template, resp) ==
    LET exchange == [api |-> source_url_template, fn |-> dest_path, resp |-> resp]
    IN  IF need_to_dl(f, dest_path)
        THEN IF resp.raised
             THEN [fs |-> f, net |-> <<exchange>>, raised |-> TRUE]
             ELSE [fs |-> WriteFile(f, dest_path, resp.content),
                   net |-> <<exchange>>, raised |-> FALSE]
        ELSE [fs |-> f, net |-> <<>>, raised |-> FALSE]

url_template_maps == "MAP.MAP_ID"
url_template_sims == "SIMULATED_MAP.FILE_ID"

SupportedDetectors == {30, 44, 70, 100, 143, 217, 353, 545, 857}

\* the outcome of a resolver: the directory, the exchanges, the targets
\* acquire_map_data was called on, the error raised ("none": it returned) and
\* the paths returned
Outcome(f, n, targets, error, returned) ==
    [fs |-> f, net |-> n, targets |-> targets, error |-> error, returned |-> returned]

get_planck_obs_data(f, detector, resp) ==
    LET dest_path == obs_map_fn(detector)
        a == acquire_map_data(f, dest_path, url_template_maps, resp)
    IN  IF a.raised
        THEN Outcome(a.fs, a.net, <<dest_path>>, "TransferError", <<>>)
        ELSE Outcome(a.fs, a.net, <<dest_path>>, "none", <<dest_path>>)

get_planck_noise_data_checked(f, detector, realization, resp) ==
    LET fn == noise_fn(detector, realization)
        a == acquire_map_data(f, fn, url_template_sims, resp)
    IN  IF detector \notin SupportedDetectors
        THEN Outcome(f, <<>>, <<>>, "InvalidDetectorError", <<>>)
        ELSE IF a.raised
        THEN Outcome(a.fs, a.net, <<fn>>, "TransferError", <<>>)
        ELSE Outcome(a.fs, a.net, <<fn>>, "none", <<fn>>)

get_planck_noise_data(f, detector, realization, resp) ==
    LET fn == noise_fn(detector, realization)
        a == acquire_map_data(f, fn, url_template_sims, resp)
    IN  IF a.raised
        THEN Outcome(a.fs, a.net, <<fn>>, "TransferError", <<>>)
        ELSE Outcome(a.fs, a.net, <<fn>>, "none", <<fn>>)

get_planck_hm_data(f, detector, resp1, resp2) ==
    LET hm_1_fn == hm_fn(detector, 1)
        hm_2_fn == hm_fn(detector, 2)
        a1 == acquire_map_data(f, hm_1_fn, url_template_maps, resp1)
        a2 == acquire_map_data(a1.fs, hm_2_fn, url_template_maps, resp2)
    IN  IF a1.raised
        THEN Outcome(a1.fs, a1.net, <<hm_1_fn>>, "TransferError", <<>>)
        ELSE IF a2.raised
        THEN Outcome(a2.fs, a1.net \o a2.net, <<hm_1_fn, hm_2_fn>>, "TransferError", <<>>)
        ELSE Outcome(a2.fs, a1.net \o a2.net, <<hm_1_fn, hm_2_fn>>, "none",
                     <<hm_1_fn, hm_2_fn>>)

-----------------------------------------------------------------------------
(* Resolver calls in a row on one assets directory, which starts empty *)

FetchDetectors == {30, 999}
FetchRealizations == {0, 7}

NoCall == [name |-> "none", detector |-> 0, realization |-> 0, pre |-> <<>>,
           targets |-> <<>>, error |-> "none", returned |-> <<>>]

Called(name, detector, realization, o) ==
    /\ nCalls < MaxCalls
    /\ nCalls' = nCalls + 1
    /\ fs' = o.fs
    /\ net' = o.net
    /\ call' = [name |-> name, detector |-> detector, realization |-> realization,
                pre |-> fs, targets |-> o.targets, error |-> o.error,
                returned |-> o.returned]
    /\ UNCHANGED <<fmt, builderVars>>

CallObs ==
    \E detector \in FetchDetectors, resp \in FetchResponses :
        Called("get_planck_obs_data", detector, 0, get_planck_obs_data(fs, detector, resp))

CallNoise ==
    \E detector \in FetchDetectors, realization \in FetchRealizations,
       resp \in FetchResponses :
        Called("get_planck_noise_data", detector, realization,
               get_planck_noise_data(fs, detector, realization, resp))

CallHm ==
    \E detector \in FetchDetectors, resp1 \in FetchResponses, resp2 \in FetchResponses :
        Called("get_planck_hm_data", detector, 0,
               get_planck_hm_data(fs, detector, resp1, resp2))

-----------------------------------------------------------------------------
(* File names formatted for two selectors *)

FmtDetectors == {0, 3, 30, 44, 70, 100, 353, 545, 857, 999, 1000}
FmtRealizations == {0, 7, 10, 100, 299, 12345, 99999, 100000}

Formatted(detector, realization, fn) ==
    [detector |-> detector, realization |-> realization, fn |-> fn]

NoFmt == [name |-> "none", a |-> Formatted(0, 0, <<>>), b |-> Formatted(0, 0, <<>>)]

FormatNoise ==
    \E d1 \in FmtDetectors, d2 \in FmtDetectors,
       r1 \in FmtRealizations, r2 \in FmtRealizations :
        /\ fmt.name = "none"
        /\ fmt' = [name |-> "get_planck_noise_data",
                   a |-> Formatted(d1, r1, noise_fn(d1, r1)),
                   b |-> Formatted(d2, r2, noise_fn(d2, r2))]
        /\ UNCHANGED <<fs, net, fetchVars, builderVars>>

FormatObs ==
    \E d \in FmtDetectors :
        /\ fmt.name = "none"
        /\ fmt' = [name |-> "get_planck_obs_data",
                   a |-> Formatted(d, 0, obs_map_fn(d)),
                   b |-> Formatted(d, 0, obs_map_fn(d))]
        /\ UNCHANGED <<fs, net, fetchVars, builderVars>>

FormatHm ==
    \E d \in FmtDetectors :
        /\ fmt.name = "none"
        /\ fmt' = [name |-> "get_planck_hm_data",
                   a |-> Formatted(d, 1, hm_fn(d, 1)),
                   b |-> Formatted(d, 2, hm_fn(d, 2))]
        /\ UNCHANGED <<fs, net, fetchVars, builderVars>>

-----------------------------------------------------------------------------
(* The Spectral Model Builder *)

DetectorLists == {<<545>>, <<30, 353>>, <<857, 100>>}
AvgFileSets == {{}, {353, 545, 857}}

get_lmax_for_nside_off(nside) == 3 * nside

get_lmax_for_nside(nside) == 3 * nside - 1

subtract_average_two(detector) == detector \in {353, 545}

subtract_average_of(detector) == detector \in {353, 545, 857}

nside_of(detector) == IF detector \in {30, 44, 70} THEN 1024 ELSE 2048

\* header[f"TUNIT{field_num}"], and "" on KeyError
get_field_unit(content) == IF content.unit = "none" THEN "" ELSE content.unit

unit_recognized_or_empty(src_map_unit) == src_map_unit \in {"K_CMB", "MJy/sr", ""}

unit_recognized(src_map_unit) == src_map_unit \in {"K_CMB", "MJy/sr"}

NoFrame ==
    [detector |-> 0, subtract_average |-> FALSE, nside |-> 0, lmax |-> 0,
     avg |-> FALSE, i |-> 0, src_map_unit |-> "unset", src_cls |-> <<>>,
     maps_means |-> <<>>, fitted |-> FALSE]

\* what the execution did: the detectors get_ps_data was called for and
\* returned for, and for the running get_ps_data the realizations fetched, the
\* reads of the baseline file, the archives saved and the error raised
NewHist(arch) ==
    [started |-> <<>>, finished |-> <<>>, fetches |-> <<>>, avgReads |-> 0,
     saves |-> 0, error |-> "none", archive0 |-> arch]

NextDetectorIsolated ==
    /\ pc \in {"batch", "error"}
    /\ Len(hist.started) < Len(DETECTORS)
    /\ pc' = "init"
    /\ frame' = [NoFrame EXCEPT !.detector = DETECTORS[Len(hist.started) + 1]]
    /\ hist' = [hist EXCEPT !.started = Append(@, DETECTORS[Len(hist.started) + 1]),
                            !.fetches = <<>>, !.avgReads = 0, !.saves = 0,
                            !.error = "none"]
    /\ net' = <<>>
    /\ UNCHANGED <<fs, fetchVars, fmt, DETECTORS, avgFiles, archive, run>>

\* for this_det in DETECTORS: get_ps_data(this_det)
NextDetector ==
    /\ pc = "batch"
    /\ Len(hist.started) < Len(DETECTORS)
    /\ pc' = "init"
    /\ frame' = [NoFrame EXCEPT !.detector = DETECTORS[Len(hist.started) + 1]]
    /\ hist' = [hist EXCEPT !.started = Append(@, DETECTORS[Len(hist.started) + 1]),
                            !.fetches = <<>>, !.avgReads = 0, !.saves = 0]
    /\ net' = <<>>
    /\ UNCHANGED <<fs, fetchVars, fmt, DETECTORS, avgFiles, archive, run>>

\* the loop over DETECTORS is exhausted: "All done"
AllDone ==
    /\ pc = "batch"
    /\ Len(hist.started) = Len(DETECTORS)
    /\ pc' = "alldone"
    /\ UNCHANGED <<fs, net, fetchVars, fmt, DETECTORS, avgFiles, archive, run, frame, hist>>

\* get_ps_data up to its loop: subtract_average, nside, the baseline, lmax
Setup ==
    /\ pc = "init"
    /\ LET detector == frame.detector
           sub == subtract_average_of(detector)
           nside == nside_of(detector)
       IN  IF sub /\ detector \notin avgFiles
           THEN /\ pc' = "error"
                /\ hist' = [hist EXCEPT !.error = "MissingBaselineError",
                                        !.avgReads = @ + 1]
                /\ frame' = [frame EXCEPT !.subtract_average = sub, !.nside = nside]
           ELSE /\ pc' = "fetching"
                /\ hist' = [hist EXCEPT !.avgReads = IF sub THEN @ + 1 ELSE @]
                /\ frame' = [frame EXCEPT !.subtract_average = sub, !.nside = nside,
                                          !.avg = sub,
                                          !.lmax = get_lmax_for_nside(nside)]
    /\ UNCHANGED <<fs, net, fetchVars, fmt, DETECTORS, avgFiles, archive, run>>

\* one pass of the loop over range(N_PLANCK_SIMS)
Iterate ==
    /\ pc = "fetching"
    /\ frame.i < N_PLANCK_SIMS
    /\ \E resp \in Responses, readOk \in BOOLEAN :
        LET o == get_planck_noise_data(fs, frame.detector, frame.i, resp)
            fetched == [hist EXCEPT !.fetches = Append(@, frame.i)]
        IN  /\ fs' = o.fs
            /\ net' = net \o o.net
            /\ IF o.error # "none"
               THEN /\ pc' = "error"
                    /\ hist' = [fetched EXCEPT !.error = o.error]
                    /\ frame' = frame
               ELSE LET content == o.fs[o.returned[1]]
                        src_map_unit == get_field_unit(content)
                    IN  IF ~content.fits
                        THEN /\ pc' = "error"
                             /\ hist' = [fetched EXCEPT !.error = "OSError"]
                             /\ frame' = frame
                        ELSE IF ~unit_recognized(src_map_unit)
                        THEN /\ pc' = "error"
                             /\ hist' = [fetched EXCEPT !.error = "ValueError: Unknown unit"]
                             /\ frame' = [frame EXCEPT !.src_map_unit = src_map_unit]
                        ELSE IF ~readOk
                        THEN /\ pc' = "error"
                             /\ hist' = [fetched EXCEPT !.error = "ReadError"]
                             /\ frame' = [frame EXCEPT !.src_map_unit = src_map_unit]
                        ELSE /\ pc' = IF frame.i + 1 < N_PLANCK_SIMS
                                      THEN "fetching" ELSE "fitting"
                             /\ hist' = fetched
                             /\ frame' = [frame EXCEPT
                                    !.src_map_unit = src_map_unit,
                                    !.maps_means = Append(@, [subtracted |-> frame.avg]),
                                    !.src_cls = Append(@, [realization |-> frame.i,
                                                           unit |-> src_map_unit,
                                                           subtracted |-> frame.avg,
                                                           lmax |-> frame.lmax]),
                                    !.i = @ + 1]
    /\ UNCHANGED <<fetchVars, fmt, DETECTORS, avgFiles, archive, run>>

\* np.log10(src_cls) and PCA().fit: the fit rejects what is not finite (the
\* logarithm of a spectrum with a zero); the spectra's values are not modelled
Fit ==
    /\ pc = "fitting"
    /\ \E finite \in BOOLEAN :
       IF ~finite
       THEN /\ pc' = "error"
            /\ hist' = [hist EXCEPT !.error = "ValueError: not finite"]
            /\ frame' = frame
       ELSE /\ pc' = "persisting"
            /\ hist' = hist
            /\ frame' = [frame EXCEPT !.fitted = TRUE]
    /\ UNCHANGED <<fs, net, fetchVars, fmt, DETECTORS, avgFiles, archive, run>>

PersistBeforeFit ==
    /\ pc \in {"fitting", "persisting"}
    /\ archive' = WriteFile(archive, frame.detector,
                            [run |-> run, n_spectra |-> Len(frame.src_cls),
                             lmax |-> frame.lmax, maps_unit |-> frame.src_map_unit])
    /\ hist' = [hist EXCEPT !.saves = @ + 1]
    /\ pc' = "done"
    /\ UNCHANGED <<fs, net, fetchVars, fmt, DETECTORS, avgFiles, run, frame>>

\* np.savez(f"noise_model_{detector}GHz_diff.npz", ...)
Persist ==
    /\ pc = "persisting"
    /\ archive' = WriteFile(archive, frame.detector,
                            [run |-> run, n_spectra |-> Len(frame.src_cls),
                             lmax |-> frame.lmax, maps_unit |-> frame.src_map_unit])
    /\ hist' = [hist EXCEPT !.saves = @ + 1]
    /\ pc' = "done"
    /\ UNCHANGED <<fs, net, fetchVars, fmt, DETECTORS, avgFiles, run, frame>>

\* get_ps_data returns: "Done with {this_det} GHz"
Return ==
    /\ pc = "done"
    /\ pc' = "batch"
    /\ hist' = [hist EXCEPT !.finished = Append(@, frame.detector)]
    /\ UNCHANGED <<fs, net, fetchVars, fmt, DETECTORS, avgFiles, archive, run, frame>>

\* the script is executed again over the same directories
Rerun ==
    /\ pc \in {"alldone", "error"}
    /\ run < MaxRuns
    /\ run' = run + 1
    /\ pc' = "batch"
    /\ frame' = NoFrame
    /\ hist' = NewHist(archive)
    /\ net' = <<>>
    /\ UNCHANGED <<fs, fetchVars, fmt, DETECTORS, avgFiles, archive>>

-----------------------------------------------------------------------------
(* Specifications *)

Init ==
    /\ fs = <<>>
    /\ net = <<>>
    /\ call = NoCall
    /\ nCalls = 0
    /\ fmt = NoFmt
    /\ DETECTORS \in DetectorLists
    /\ avgFiles \in AvgFileSets
    /\ archive = <<>>
    /\ pc = "batch"
    /\ run = 1
    /\ frame = NoFrame
    /\ hist = NewHist(<<>>)

InitOne ==
    /\ fs = <<>>
    /\ net = <<>>
    /\ call = NoCall
    /\ nCalls = 0
    /\ fmt = NoFmt
    /\ DETECTORS = <<545>>
    /\ avgFiles = {}
    /\ archive = <<>>
    /\ pc = "batch"
    /\ run = 1
    /\ frame = NoFrame
    /\ hist = NewHist(<<>>)

Next == NextDetector \/ AllDone \/ Setup \/ Iterate \/ Fit \/ Persist \/ Return \/ Rerun

Spec == Init /\ [][Next]_vars

NextFetch == CallObs \/ CallNoise \/ CallHm

SpecFetch == InitOne /\ [][NextFetch]_vars

NextFmt == FormatNoise \/ FormatObs \/ FormatHm

SpecFmt == InitOne /\ [][NextFmt]_vars

-----------------------------------------------------------------------------
(* Reading a file name back *)

\* the fields of a text between the separators sep
Split(s, sep) ==
    LET at == {k \in 1..Len(s) : s[k] = sep}
        n == Cardinality(at)
        \* the place of the j-th separator; 0 and Len(s) + 1 bound the text
        Sep(j) == IF j = 0 THEN 0
                  ELSE IF j = n + 1 THEN Len(s) + 1
                  ELSE CHOOSE k \in at : Cardinality({q \in at : q <= k}) = j
    IN  [j \in 1..(n + 1) |-> SubSeq(s, Sep(j - 1) + 1, Sep(j) - 1)]

DigitChars == {"0", "1", "2", "3", "4", "5", "6", "7", "8", "9"}

IsDigits(s) == \A k \in 1..Len(s) : s[k] \in DigitChars

DigitValue(c) == CHOOSE k \in 0..9 : Digit(k) = c

RECURSIVE ParseInt(_)
ParseInt(s) ==
    IF s = <<>> THEN 0
    ELSE 10 * ParseInt(SubSeq(s, 1, Len(s) - 1)) + DigitValue(s[Len(s)])

EndsWith(s, suffix) ==
    /\ Len(s) >= Len(suffix)
    /\ SubSeq(s, Len(s) - Len(suffix) + 1, Len(s)) = suffix

DropSuffix(s, suffix) == SubSeq(s, 1, Len(s) - Len(suffix))

Exists(f, path) == path \in DOMAIN f

\* the file at path is the same in f and in g: absent in both, or equal
SameFile(f, g, path) ==
    /\ Exists(f, path) <=> Exists(g, path)
    /\ Exists(f, path) => f[path] = g[path]

-----------------------------------------------------------------------------
(* Asset Fetcher: claims checked under SpecFetch *)

Requests(path) == {j \in 1..Len(net) : net[j].fn = path}

\* C1: every acquire_map_data call of a resolver leaves a file of >= 1024 bytes
\* alone and sends no request for it; for an absent file or one of < 1024
\* bytes it sends exactly one request, and the file then holds the response
\* body in full (when the request itself raises, the file is left as it was).
C1_AcquirePolicy ==
    /\ call.name # "none" => Len(call.targets) >= 1
    /\ \A k \in 1..Len(call.targets) :
        LET path == call.targets[k]
        IN  IF Exists(call.pre, path) /\ call.pre[path].size >= 1024
            THEN /\ Requests(path) = {}
                 /\ SameFile(fs, call.pre, path)
            ELSE /\ Cardinality(Requests(path)) = 1
                 /\ \A j \in Requests(path) :
                        IF net[j].resp.raised
                        THEN SameFile(fs, call.pre, path)
                        ELSE Exists(fs, path) /\ fs[path] = net[j].resp.content

\* a 1023-byte file left by an earlier call is downloaded again
C1_Witness ==
    /\ Len(call.targets) = 1
    /\ Exists(call.pre, call.targets[1])
    /\ call.pre[call.targets[1]].size = 1023
    /\ Len(net) = 1
    /\ fs[call.targets[1]] = FitsFile("K_CMB")

\* C3: whenever a resolver returns a path, the file at that path exists and
\* holds at least 1024 bytes.
C3_ReturnedFileNonTrivial ==
    \A k \in 1..Len(call.returned) :
        /\ Exists(fs, call.returned[k])
        /\ fs[call.returned[k]].size >= 1024

\* C4 as claimed: get_planck_noise_data with a detector outside the supported
\* set fails with an invalid-detector error, sends no request and writes no file.
C4_InvalidDetectorRejected ==
    (call.name = "get_planck_noise_data" /\ call.detector \notin SupportedDetectors)
        => /\ call.error = "InvalidDetectorError"
           /\ net = <<>>
           /\ fs = call.pre

\* C4 as amended: get_planck_noise_data does not validate the detector. For a
\* detector outside the supported set it never raises an invalid-detector
\* error: it formats the file name with the detector's decimal digits and
\* applies the acquisition policy to it, sending one request when the file is
\* absent or shorter than 1024 bytes, and returns the path unless the request
\* raised.
C4_NoDetectorValidation ==
    (call.name = "get_planck_noise_data" /\ call.detector \notin SupportedDetectors)
        => /\ call.error # "InvalidDetectorError"
           /\ Len(call.targets) = 1
           /\ LET fn == call.targets[1]
                  fields == Split(fn, "_")
              IN  /\ Len(fields) = 7
                  /\ IsDigits(fields[3])
                  /\ ParseInt(fields[3]) = call.detector
                  /\ (~Exists(call.pre, fn) \/ call.pre[fn].size < 1024)
                        => (Len(net) = 1 /\ net[1].fn = fn)
                  /\ call.error = "none"
                        => (call.returned = <<fn>> /\ Exists(fs, fn))

C4_Witness ==
    /\ call.name = "get_planck_noise_data"
    /\ call.detector = 999
    /\ call.error = "none"
    /\ Len(net) = 1
    /\ Exists(fs, call.returned[1])
    /\ ~Exists(call.pre, call.returned[1])

-----------------------------------------------------------------------------
(* File names: claims checked under SpecFmt *)

InRange(x) == x.detector <= 999 /\ x.realization <= 99999

\* C6: the noise file name embeds the frequency as exactly 3 zero-padded
\* decimal digits and the realization as exactly 5, for detectors 0..999 and
\* realizations 0..99999; two distinct selectors in those ranges never get the
\* same file name, and equal selectors get equal file names.
C6_NoiseFilename ==
    fmt.name = "get_planck_noise_data" =>
        /\ \A x \in {fmt.a, fmt.b} :
            InRange(x) =>
                LET fields == Split(x.fn, "_")
                    freq == fields[3]
                    real == DropSuffix(fields[7], T_fits)
                IN  /\ Len(fields) = 7
                    /\ EndsWith(fields[7], T_fits)
                    /\ Len(freq) = 3 /\ IsDigits(freq) /\ ParseInt(freq) = x.detector
                    /\ Len(real) = 5 /\ IsDigits(real) /\ ParseInt(real) = x.realization
                    /\ x.detector = 30 => freq = <<"0", "3", "0">>
                    /\ x.detector = 545 => freq = <<"5", "4", "5">>
                    /\ x.realization = 7 => real = <<"0", "0", "0", "0", "7">>
                    /\ x.realization = 100 => real = <<"0", "0", "1", "0", "0">>
        /\ (InRange(fmt.a) /\ InRange(fmt.b) /\ fmt.a.fn = fmt.b.fn)
                => (fmt.a.detector = fmt.b.detector /\ fmt.a.realization = fmt.b.realization)
        /\ (fmt.a.detector = fmt.b.detector /\ fmt.a.realization = fmt.b.realization)
                => fmt.a.fn = fmt.b.fn

C6_Witness ==
    /\ fmt.name = "get_planck_noise_data"
    /\ fmt.a.detector = 30 /\ fmt.a.realization = 7
    /\ fmt.b.detector = 545 /\ fmt.b.realization = 100
    /\ fmt.a.fn # fmt.b.fn

\* C7: the observation and the half-mission file names carry the first
\* instrument family (LFI) and resolution 1024 for detectors 30, 44 and 70, the
\* second family (HFI) and resolution 2048 for every other detector, and the
\* frequency code "353-psb" for detector 353.
C7_FamilyAndResolution ==
    fmt.name \in {"get_planck_obs_data", "get_planck_hm_data"} =>
        \A x \in {fmt.a, fmt.b} :
            LET fields == Split(x.fn, "_")
                lfi == x.detector \in {30, 44, 70}
            IN  /\ fields[1] = (IF lfi THEN LFI ELSE HFI)
                /\ fields[4] = (IF lfi THEN <<"1", "0", "2", "4">> ELSE <<"2", "0", "4", "8">>)
                /\ x.detector = 353 => fields[3] = <<"3", "5", "3", "-", "p", "s", "b">>

-----------------------------------------------------------------------------
(* Spectral Model Builder: claims checked under Spec *)

Recognized == {"K_CMB", "MJy/sr"}
AverageSubtracted == {353, 545, 857}
InLoopOrAfter == {"fetching", "fitting", "persisting", "done"}

\* the archive of the running detector is what it was when the execution began
ArchiveUntouched ==
    /\ hist.saves = 0
    /\ SameFile(archive, hist.archive0, frame.detector)

\* the map file of realization j of the running detector carries a unit
\* outside the recognized set (no TUNIT1 entry included)
BadUnitOnDisk(j) ==
    LET fn == noise_fn(frame.detector, j)
    IN  /\ Exists(fs, fn)
        /\ fs[fn].fits
        /\ fs[fn].unit \notin Recognized

\* C2 as claimed: when a realization's map reports an unrecognized unit,
\* get_ps_data raises before any power spectrum of the detector's run was
\* computed, and no archive is written for the detector.
C2_NoSpectrumBeforeUnitError ==
    hist.error = "ValueError: Unknown unit"
        => /\ Len(frame.src_cls) = 0
           /\ ArchiveUntouched

\* C2 as amended: when the map of realization i reports a unit outside
\* {"K_CMB", "MJy/sr"} (a header without unit entry reads as ""), get_ps_data
\* raises at realization i: no power spectrum is computed for that map or for
\* a later realization, only those of realizations 0..i-1 have been computed,
\* and no archive is written for the detector.
C2_UnitErrorStopsAtRealization ==
    /\ \A k \in 1..Len(frame.src_cls) : frame.src_cls[k].unit \in Recognized
    /\ \A k \in 1..Len(hist.fetches) :
          BadUnitOnDisk(hist.fetches[k])
              => /\ pc = "error"
                 /\ hist.error = "ValueError: Unknown unit"
                 /\ hist.fetches[k] = frame.i
    /\ hist.error = "ValueError: Unknown unit"
          => /\ pc = "error"
             /\ frame.src_map_unit \notin Recognized
             /\ Len(frame.src_cls) = frame.i
             /\ \A k \in 1..Len(frame.src_cls) : frame.src_cls[k].realization = k - 1
             /\ ArchiveUntouched

C2_Witness ==
    /\ hist.error = "ValueError: Unknown unit"
    /\ frame.src_map_unit = ""
    /\ frame.i = 1
    /\ Len(frame.src_cls) = 1

\* C5: get_ps_data uses resolution 1024 and L = 3071 for detectors 30, 44 and
\* 70, resolution 2048 and L = 6143 for every other detector; L = 3 * resolution
\* - 1 and every power spectrum is computed up to that L.
C5_ResolutionAndLmax ==
    LET lfi == frame.detector \in {30, 44, 70}
        L == IF lfi THEN 3071 ELSE 6143
    IN  /\ pc \in InLoopOrAfter
            => /\ frame.nside = (IF lfi THEN 1024 ELSE 2048)
               /\ frame.lmax = L
               /\ frame.lmax = 3 * frame.nside - 1
        /\ \A k \in 1..Len(frame.src_cls) : frame.src_cls[k].lmax = L

C5_Witness ==
    /\ pc = "fitting"
    /\ frame.detector = 30
    /\ Len(frame.src_cls) = N_PLANCK_SIMS
    /\ frame.src_cls[1].lmax = 3071

AllowedSteps ==
    {<<"batch", "init">>, <<"batch", "alldone">>,
     <<"init", "fetching">>, <<"init", "error">>,
     <<"fetching", "fetching">>, <<"fetching", "fitting">>, <<"fetching", "error">>,
     <<"fitting", "persisting">>, <<"fitting", "error">>,
     <<"persisting", "done">>, <<"done", "batch">>}

C8_Positions ==
    /\ \A k \in 1..Len(hist.fetches) : hist.fetches[k] = k - 1
    /\ Len(net) <= Len(hist.fetches)
    /\ pc = "fetching" => (frame.i < N_PLANCK_SIMS /\ Len(hist.fetches) = frame.i)
    /\ Len(frame.src_cls) = frame.i
    /\ pc \in {"fitting", "persisting", "done"}
          => /\ frame.i = N_PLANCK_SIMS
             /\ Len(hist.fetches) = N_PLANCK_SIMS
    /\ frame.fitted => Len(frame.src_cls) = N_PLANCK_SIMS
    /\ pc = "persisting" => frame.fitted
    /\ hist.saves <= 1
    /\ hist.saves = 1 => (frame.fitted /\ pc \in {"done", "batch", "alldone"})
    /\ pc = "error" => (hist.error # "none" /\ ArchiveUntouched)
    /\ hist.error # "none" => pc = "error"

C8_Steps ==
    /\ run' = run => <<pc, pc'>> \in AllowedSteps
    /\ Len(hist'.fetches) > Len(hist.fetches)
          => (pc = "fetching" /\ hist'.fetches = Append(hist.fetches, frame.i))
    /\ archive' # archive => (pc = "persisting" /\ hist'.saves = 1)

\* C8: a detector's run of get_ps_data goes Init -> Fetching(i = 0, 1, ...,
\* N-1) -> Fitting -> Persisting -> Done with no step back and no retry: each
\* realization is fetched exactly once and in ascending order, the fit starts
\* only after all N realizations were fetched and analysed, the archive is
\* written at most once and only after the fit, and a failure at any step ends
\* the run in an error state in which no archive was written or modified for
\* the detector.
C8_LinearRun == [](C8_Positions) /\ [][C8_Steps]_vars

\* in a second execution the fit fails, and the archive of the first stays
C8_Witness ==
    /\ pc = "error"
    /\ hist.error = "ValueError: not finite"
    /\ run = 2
    /\ Exists(archive, frame.detector)
    /\ archive[frame.detector].run = 1

C9_Order ==
    /\ Len(hist.started) <= Len(DETECTORS)
    /\ hist.started = SubSeq(DETECTORS, 1, Len(hist.started))
    /\ hist.finished = SubSeq(DETECTORS, 1, Len(hist.finished))
    /\ Len(hist.started) - Len(hist.finished) \in {0, 1}
    /\ pc \in {"init", "fetching", "fitting", "persisting", "done", "error"}
          => /\ Len(hist.started) = Len(hist.finished) + 1
             /\ frame.detector = DETECTORS[Len(hist.started)]
    /\ \A k \in 1..Len(hist.finished) :
          /\ Exists(archive, DETECTORS[k])
          /\ archive[DETECTORS[k]].run = run
    /\ \A k \in (Len(hist.started) + 1)..Len(DETECTORS) :
          SameFile(archive, hist.archive0, DETECTORS[k])
    /\ pc = "alldone" => Len(hist.finished) = Len(DETECTORS)

C9_Halt ==
    pc = "error" => (run' # run /\ archive' = archive /\ fs' = fs)

\* C9: the batch processes the detector list in order, one detector at a time;
\* when get_ps_data fails for a detector the batch halts: no later detector is
\* started and nothing is written for it, and the archives written for earlier
\* detectors stay as they are.
C9_BatchHalts == [](C9_Order) /\ [][C9_Halt]_vars

\* the first of two detectors failed: the second was never started
C9_Witness ==
    /\ pc = "error"
    /\ Len(DETECTORS) = 2
    /\ hist.started = <<DETECTORS[1]>>
    /\ ~Exists(archive, DETECTORS[2])

\* C10: the baseline average is loaded, and subtracted from every realization's
\* map before its mean and power spectrum are taken, exactly for the detectors
\* 353, 545 and 857; it is loaded before the first fetch, so a missing baseline
\* file aborts the run with no fetch, no request and no archive; for any other
\* detector the baseline file is never read and its absence changes nothing.
C10_BaselineSubtraction ==
    LET sub == frame.detector \in AverageSubtracted
    IN  /\ pc \in InLoopOrAfter
            => /\ frame.subtract_average <=> sub
               /\ frame.avg <=> sub
               /\ sub => frame.detector \in avgFiles
               /\ hist.avgReads = (IF sub THEN 1 ELSE 0)
        /\ \A k \in 1..Len(frame.src_cls) :
              /\ frame.src_cls[k].subtracted <=> sub
              /\ frame.maps_means[k].subtracted <=> sub
        /\ Len(frame.maps_means) = Len(frame.src_cls)
        /\ hist.fetches # <<>> => (sub => (frame.avg /\ hist.avgReads = 1))
        /\ ~sub => hist.avgReads = 0
        /\ hist.error = "MissingBaselineError"
              => /\ pc = "error"
                 /\ sub /\ frame.detector \notin avgFiles
                 /\ hist.fetches = <<>>
                 /\ net = <<>>
                 /\ ArchiveUntouched
        /\ (pc = "error" /\ sub /\ frame.detector \notin avgFiles)
              => hist.error = "MissingBaselineError"

\* detector 30 ran to its end without a baseline file; detector 353 aborts
C10_Witness ==
    /\ hist.error = "MissingBaselineError"
    /\ frame.detector = 353
    /\ hist.finished = <<30>>
    /\ avgFiles = {}
    /\ Exists(archive, 30)

====
